---------------------------- MODULE Spec2Model ----------------------------
(***************************************************************************)
(* A model of generate_feed.py, the Google Merchant Center feed generator: *)
(* the retrying page fetcher, the JSON-LD product extractor, the URL-based *)
(* category mapping, the RSS serializer and the orchestrating main().      *)
(*                                                                         *)
(* Python strings are modelled as sequences of one-character strings, so   *)
(* that substring tests, slicing, replacement and ordinal comparison are   *)
(* computed the way the interpreter computes them.  A JSON object is a     *)
(* function from the keys present to their values.  The regular-expression *)
(* scans of a page (re.findall for the ld+json blocks and the <loc>        *)
(* elements, re.finditer for the og: tags) are represented by their        *)
(* results: a page carries the list of its blocks in document order and    *)
(* the dictionary of its og: tags.  JSON scalars are strings.              *)
(***************************************************************************)
EXTENDS Integers, Sequences, FiniteSets, Bags, TLC

VARIABLES
    pc,            \* position of main(), or of the call under study
    world,         \* what the network answers: the sitemap and one behaviour per unit
    urls,          \* main: the list returned by get_product_urls()
    fut,           \* main: future_to_url, each future's state and result
    products,      \* main: the list of collected product records
    errors,        \* main: the error counter
    done,          \* main: the completion counter
    xml_content,   \* main: the string returned by generate_feed (a sequence of lines)
    file,          \* OUTPUT_FILE: whether this run has written it, and its content
    feed_calls,    \* number of calls of generate_feed made so far
    exit_code,     \* the process exit status, -1 while running
    arg,           \* the argument of the function call under study
    ret            \* its result

vars == <<pc, world, urls, fut, products, errors, done, xml_content, file,
          feed_calls, exit_code, arg, ret>>

---------------------------------------------------------------------------
(* Strings *)

Ascii == <<" ","!","\"","#","$","%","&","'","(",")","*","+",",","-",".","/","0","1","2","3","4","5","6","7","8","9",":",";","<","=",">","?","@","A","B","C","D","E","F","G","H","I","J","K","L","M","N","O","P","Q","R","S","T","U","V","W","X","Y","Z","[","\\","]","^","_","backtick","a","b","c","d","e","f","g","h","i","j","k","l","m","n","o","p","q","r","s","t","u","v","w","x","y","z","{","|","}","~">>

OrdMap == [c \in {Ascii[i] : i \in 1..Len(Ascii)} |-> 31 + CHOOSE i \in 1..Len(Ascii) : Ascii[i] = c]

\* ord(c) for the printable ASCII characters
Ord(c) == OrdMap[c]

UpperLetters == <<"A","B","C","D","E","F","G","H","I","J","K","L","M","N","O","P","Q","R","S","T","U","V","W","X","Y","Z">> (* ABCDEFGHIJKLMNOPQRSTUVWXYZ *)

LowerLetters == <<"a","b","c","d","e","f","g","h","i","j","k","l","m","n","o","p","q","r","s","t","u","v","w","x","y","z">> (* abcdefghijklmnopqrstuvwxyz *)

LowerMap ==
    [c \in {UpperLetters[i] : i \in 1..Len(UpperLetters)} |->
        LowerLetters[CHOOSE i \in 1..Len(UpperLetters) : UpperLetters[i] = c]]

\* str.lower() on one character
LowerChar(c) == IF c \in DOMAIN LowerMap THEN LowerMap[c] ELSE c

\* str.lower()
Lower(s) == [i \in 1..Len(s) |-> LowerChar(s[i])]

\* pat in s
Contains(s, pat) ==
    \E i \in 1..(Len(s) - Len(pat) + 1) : SubSeq(s, i, i + Len(pat) - 1) = pat

\* s[:n]
Take(s, n) == SubSeq(s, 1, IF n < Len(s) THEN n ELSE Len(s))

\* s < t in Python's ordering of str (lexicographic by code point)
RECURSIVE StrLess(_, _)
StrLess(s, t) ==
    IF t = << >> THEN FALSE
    ELSE IF s = << >> THEN TRUE
    ELSE IF s[1] # t[1] THEN Ord(s[1]) < Ord(t[1])
    ELSE StrLess(Tail(s), Tail(t))

\* s.replace(c, rep) for a one-character c
RECURSIVE Replace(_, _, _)
Replace(s, c, rep) ==
    IF s = << >> THEN << >>
    ELSE (IF s[1] = c THEN rep ELSE <<s[1]>>) \o Replace(Tail(s), c, rep)

\* s.rstrip("/")
RECURSIVE RStripSlash(_)
RStripSlash(s) ==
    IF s # << >> /\ s[Len(s)] = "/" THEN RStripSlash(SubSeq(s, 1, Len(s) - 1)) ELSE s

\* s.split("/")[-1]
RECURSIVE LastSegment(_)
LastSegment(s) ==
    IF s = << >> \/ s[Len(s)] = "/" THEN << >>
    ELSE Append(LastSegment(SubSeq(s, 1, Len(s) - 1)), s[Len(s)])

---------------------------------------------------------------------------
(* Values *)

None == [none |-> TRUE]

IsNone(v) == DOMAIN v = {"none"}

\* an exception propagating out of a call
Raise(e) == [raise |-> e]

IsRaise(v) == DOMAIN v = {"raise"}

EmptyDict == [k \in {} |-> << >>]

\* d.get(k, default)
Get(d, k, default) == IF k \in DOMAIN d THEN d[k] ELSE default

---------------------------------------------------------------------------
(* map_google_category *)

CatSolarPanels == <<"H","a","r","d","w","a","r","e"," ",">"," ","P","o","w","e","r"," ","&"," ","E","l","e","c","t","r","i","c","a","l"," ","S","u","p","p","l","i","e","s"," ",">"," ","S","o","l","a","r"," ","P","a","n","e","l","s">> (* Hardware > Power & Electrical Supplies > Solar Panels *)

CatBatteries == <<"H","a","r","d","w","a","r","e"," ",">"," ","P","o","w","e","r"," ","&"," ","E","l","e","c","t","r","i","c","a","l"," ","S","u","p","p","l","i","e","s"," ",">"," ","P","o","w","e","r"," ","S","t","o","r","a","g","e"," ","B","a","t","t","e","r","i","e","s">> (* Hardware > Power & Electrical Supplies > Power Storage Batteries *)

CatCharging == <<"V","e","h","i","c","l","e","s"," ","&"," ","P","a","r","t","s"," ",">"," ","V","e","h","i","c","l","e"," ","P","a","r","t","s"," ","&"," ","A","c","c","e","s","s","o","r","i","e","s"," ",">"," ","M","o","t","o","r"," ","V","e","h","i","c","l","e"," ","E","l","e","c","t","r","o","n","i","c","s"," ",">"," ","M","o","t","o","r"," ","V","e","h","i","c","l","e"," ","C","h","a","r","g","i","n","g">> (* Vehicles & Parts > Vehicle Parts & Accessories > Motor Vehicle Electronics > Motor Vehicle Charging *)

CatCables == <<"H","a","r","d","w","a","r","e"," ",">"," ","P","o","w","e","r"," ","&"," ","E","l","e","c","t","r","i","c","a","l"," ","S","u","p","p","l","i","e","s"," ",">"," ","E","l","e","c","t","r","i","c","a","l"," ","W","i","r","e","s"," ","&"," ","C","a","b","l","e">> (* Hardware > Power & Electrical Supplies > Electrical Wires & Cable *)

CatKits == <<"H","a","r","d","w","a","r","e"," ",">"," ","P","o","w","e","r"," ","&"," ","E","l","e","c","t","r","i","c","a","l"," ","S","u","p","p","l","i","e","s"," ",">"," ","S","o","l","a","r"," ","E","n","e","r","g","y"," ","K","i","t","s">> (* Hardware > Power & Electrical Supplies > Solar Energy Kits *)

CatInverters == <<"H","a","r","d","w","a","r","e"," ",">"," ","P","o","w","e","r"," ","&"," ","E","l","e","c","t","r","i","c","a","l"," ","S","u","p","p","l","i","e","s"," ",">"," ","P","o","w","e","r"," ","I","n","v","e","r","t","e","r","s">> (* Hardware > Power & Electrical Supplies > Power Inverters *)

\* map_google_category testing the cable group before the charging group
map_google_category_cable_first(url) ==
    LET path == Lower(url) IN
    IF Contains(path, <<"s","o","l","a","r","-","p","a","n","e","l">> (* solar-panel *)) \/ Contains(path, <<"g","u","n","e","s","-","p","a","n","e","l","i">> (* gunes-paneli *))
    THEN CatSolarPanels
    ELSE IF \/ Contains(path, <<"l","i","t","y","u","m","-","p","i","l">> (* lityum-pil *))
            \/ Contains(path, <<"b","a","t","a","r","y","a">> (* batarya *))
            \/ Contains(path, <<"r","e","s","e","r","v","a">> (* reserva *))
            \/ Contains(path, <<"e","n","e","r","j","i","-","d","e","p","o","l","a","m","a">> (* enerji-depolama *))
    THEN CatBatteries
    ELSE IF Contains(path, <<"s","o","l","a","r","-","k","a","b","l","o">> (* solar-kablo *)) \/ Contains(path, <<"k","o","n","n","e","k","t","o","r">> (* konnektor *)) \/ Contains(path, <<"k","a","b","l","o">> (* kablo *))
    THEN CatCables
    ELSE IF \/ Contains(path, <<"s","a","r","j","-","c","i","h","a","z","i">> (* sarj-cihazi *))
            \/ Contains(path, <<"w","a","t","t","p","i","l","o","t">> (* wattpilot *))
            \/ Contains(path, <<"s","a","r","j","-","k","a","b","l","o","s","u">> (* sarj-kablosu *))
            \/ Contains(path, <<"e","v","-","s","a","r","j">> (* ev-sarj *))
    THEN CatCharging
    ELSE IF Contains(path, <<"s","o","l","a","r","-","m","a","l","z","e","m","e">> (* solar-malzeme *)) \/ Contains(path, <<"p","a","n","o">> (* pano *)) \/ Contains(path, <<"s","i","g","o","r","t","a">> (* sigorta *))
    THEN CatKits
    ELSE CatInverters

map_google_category(url) ==
    LET path == Lower(url) IN
    IF Contains(path, <<"s","o","l","a","r","-","p","a","n","e","l">> (* solar-panel *)) \/ Contains(path, <<"g","u","n","e","s","-","p","a","n","e","l","i">> (* gunes-paneli *))
    THEN CatSolarPanels
    ELSE IF \/ Contains(path, <<"l","i","t","y","u","m","-","p","i","l">> (* lityum-pil *))
            \/ Contains(path, <<"b","a","t","a","r","y","a">> (* batarya *))
            \/ Contains(path, <<"r","e","s","e","r","v","a">> (* reserva *))
            \/ Contains(path, <<"e","n","e","r","j","i","-","d","e","p","o","l","a","m","a">> (* enerji-depolama *))
    THEN CatBatteries
    ELSE IF \/ Contains(path, <<"s","a","r","j","-","c","i","h","a","z","i">> (* sarj-cihazi *))
            \/ Contains(path, <<"w","a","t","t","p","i","l","o","t">> (* wattpilot *))
            \/ Contains(path, <<"s","a","r","j","-","k","a","b","l","o","s","u">> (* sarj-kablosu *))
            \/ Contains(path, <<"e","v","-","s","a","r","j">> (* ev-sarj *))
    THEN CatCharging
    ELSE IF Contains(path, <<"s","o","l","a","r","-","k","a","b","l","o">> (* solar-kablo *)) \/ Contains(path, <<"k","o","n","n","e","k","t","o","r">> (* konnektor *)) \/ Contains(path, <<"k","a","b","l","o">> (* kablo *))
    THEN CatCables
    ELSE IF Contains(path, <<"s","o","l","a","r","-","m","a","l","z","e","m","e">> (* solar-malzeme *)) \/ Contains(path, <<"p","a","n","o">> (* pano *)) \/ Contains(path, <<"s","i","g","o","r","t","a">> (* sigorta *))
    THEN CatKits
    ELSE CatInverters

---------------------------------------------------------------------------
(* fetch_url *)

\* retries=2, the default of fetch_url
DEFAULT_RETRIES == 2

\* One answer of the network to urlopen + read + decode: the text, or an
\* exception.  A text is the record of what the scans of the program find in
\* it: empty (it is ""), blocks (the ld+json blocks, in document order), og
\* (the og: and description meta tags) and locs (the product <loc> URLs).
Fail(e) == [fail |-> e]

IsFail(o) == DOMAIN o = {"fail"}

Text(blocks, og, locs) == [empty |-> FALSE, blocks |-> blocks, og |-> og, locs |-> locs]

EmptyText == [empty |-> TRUE, blocks |-> << >>, og |-> EmptyDict, locs |-> << >>]

\* The loop of fetch_url from iteration `attempt` on; net[k] is the answer to
\* the k-th urlopen.  Returns the value returned and the log of the calls of
\* urlopen and time.sleep(1) made.
\* fetch_loop sleeping after every failed attempt, the last one included
RECURSIVE fetch_loop_sleep_always(_, _, _)
fetch_loop_sleep_always(net, retries, attempt) ==
    IF attempt >= retries + 1
    THEN [ret |-> None, log |-> << >>]
    ELSE IF ~IsFail(net[attempt + 1])
    THEN [ret |-> net[attempt + 1], log |-> <<"urlopen">>]
    ELSE LET rest == fetch_loop_sleep_always(net, retries, attempt + 1)
         IN  [ret |-> rest.ret, log |-> <<"urlopen", "sleep">> \o rest.log]

RECURSIVE fetch_loop(_, _, _)
fetch_loop(net, retries, attempt) ==
    IF attempt >= retries + 1
    THEN [ret |-> None, log |-> << >>]
    ELSE IF ~IsFail(net[attempt + 1])
    THEN [ret |-> net[attempt + 1], log |-> <<"urlopen">>]
    ELSE IF attempt < retries
    THEN LET rest == fetch_loop(net, retries, attempt + 1)
         IN  [ret |-> rest.ret, log |-> <<"urlopen", "sleep">> \o rest.log]
    ELSE [ret |-> None, log |-> <<"urlopen">>]

fetch_url(net, retries) == fetch_loop(net, retries, 0).ret

\* not x, for x a text or None
NotText(x) == IF IsNone(x) THEN TRUE ELSE x.empty

---------------------------------------------------------------------------
(* extract_product_jsonld, extract_og_tags *)

\* What json.loads makes of a block after the newline replacement:
\* JsonError (it raises JSONDecodeError), Obj(d) (a JSON object) or
\* NonObj(t) (an array, a string, a number, true, false or null).
JsonError == [error |-> "JSONDecodeError"]

Obj(d) == [obj |-> d]

NonObj(t) == [nonobj |-> t]

IsObj(v) == DOMAIN v = {"obj"}

IsJsonError(v) == DOMAIN v = {"error"}

\* The for loop over blocks: data.get on a value that is no dict raises
\* AttributeError, which only "except json.JSONDecodeError" would have to catch.
RECURSIVE scan_blocks(_)
scan_blocks(blocks) ==
    IF blocks = << >> THEN None
    ELSE LET data == Head(blocks) IN
         IF IsJsonError(data) THEN scan_blocks(Tail(blocks))
         ELSE IF ~IsObj(data) THEN Raise("AttributeError")
         ELSE IF "@type" \in DOMAIN data.obj /\ data.obj["@type"] = <<"P","r","o","d","u","c","t">> (* Product *)
         THEN data
         ELSE scan_blocks(Tail(blocks))

extract_product_jsonld(html) == scan_blocks(html.blocks)

\* the og: tags and the description meta tag, their values unescaped
extract_og_tags(html) == html.og

---------------------------------------------------------------------------
(* scrape_product *)

ID_MAX == 50

ID_KEEP == 41

HASH_LEN == 8

DESC_MAX == 5000

TITLE_MAX == 150

avail_map ==
    (<<"h","t","t","p","s",":","/","/","s","c","h","e","m","a",".","o","r","g","/","I","n","S","t","o","c","k">> (* https://schema.org/InStock *) :> <<"i","n","_","s","t","o","c","k">> (* in_stock *))
    @@ (<<"h","t","t","p","s",":","/","/","s","c","h","e","m","a",".","o","r","g","/","O","u","t","O","f","S","t","o","c","k">> (* https://schema.org/OutOfStock *) :> <<"o","u","t","_","o","f","_","s","t","o","c","k">> (* out_of_stock *))
    @@ (<<"h","t","t","p","s",":","/","/","s","c","h","e","m","a",".","o","r","g","/","P","r","e","O","r","d","e","r">> (* https://schema.org/PreOrder *) :> <<"p","r","e","o","r","d","e","r">> (* preorder *))
    @@ (<<"h","t","t","p",":","/","/","s","c","h","e","m","a",".","o","r","g","/","I","n","S","t","o","c","k">> (* http://schema.org/InStock *) :> <<"i","n","_","s","t","o","c","k">> (* in_stock *))
    @@ (<<"h","t","t","p",":","/","/","s","c","h","e","m","a",".","o","r","g","/","O","u","t","O","f","S","t","o","c","k">> (* http://schema.org/OutOfStock *) :> <<"o","u","t","_","o","f","_","s","t","o","c","k">> (* out_of_stock *))

cond_map ==
    (<<"h","t","t","p","s",":","/","/","s","c","h","e","m","a",".","o","r","g","/","N","e","w","C","o","n","d","i","t","i","o","n">> (* https://schema.org/NewCondition *) :> <<"n","e","w">> (* new *))
    @@ (<<"h","t","t","p",":","/","/","s","c","h","e","m","a",".","o","r","g","/","N","e","w","C","o","n","d","i","t","i","o","n">> (* http://schema.org/NewCondition *) :> <<"n","e","w">> (* new *))
    @@ (<<"h","t","t","p","s",":","/","/","s","c","h","e","m","a",".","o","r","g","/","U","s","e","d","C","o","n","d","i","t","i","o","n">> (* https://schema.org/UsedCondition *) :> <<"u","s","e","d">> (* used *))
    @@ (<<"h","t","t","p","s",":","/","/","s","c","h","e","m","a",".","o","r","g","/","R","e","f","u","r","b","i","s","h","e","d","C","o","n","d","i","t","i","o","n">> (* https://schema.org/RefurbishedCondition *) :> <<"r","e","f","u","r","b","i","s","h","e","d">> (* refurbished *))

HexDigits == <<"0","1","2","3","4","5","6","7","8","9","a","b","c","d","e","f">> (* 0123456789abcdef *)

RECURSIVE DigestSum(_, _, _)
DigestSum(s, i, k) ==
    IF i > Len(s) THEN 0 ELSE ((i + k) * Ord(s[i]) + DigestSum(s, i + 1, k)) % 65536

\* hashlib.md5(s.encode()).hexdigest(): the library's digest is represented by
\* a fixed function of the whole string to 32 lower-case hexadecimal digits.
md5_hexdigest(s) == [k \in 1..32 |-> HexDigits[1 + ((DigestSum(s, 1, k) + Len(s) * k) % 16)]]

\* s.strip(): the whitespace of the modelled strings is the space
RECURSIVE LStrip(_)
LStrip(s) == IF s # << >> /\ s[1] = " " THEN LStrip(Tail(s)) ELSE s

RECURSIVE RStrip(_)
RStrip(s) == IF s # << >> /\ s[Len(s)] = " " THEN RStrip(SubSeq(s, 1, Len(s) - 1)) ELSE s

Strip(s) == RStrip(LStrip(s))

\* x or y
Or(x, y) == IF x # << >> THEN x ELSE y

\* normalize_id keeping one character too many of a long id
normalize_id_keep42(id, url) ==
    LET id1 == IF id = << >> THEN LastSegment(RStripSlash(url)) ELSE id
    IN  IF Len(id1) > ID_MAX
        THEN Take(id1, ID_KEEP + 1) \o <<"-">> \o Take(md5_hexdigest(id1), HASH_LEN)
        ELSE id1

\* lines 132-138: the slug fallback and the shortening of the id
normalize_id(id, url) ==
    LET id1 == IF id = << >> THEN LastSegment(RStripSlash(url)) ELSE id
    IN  IF Len(id1) > ID_MAX
        THEN Take(id1, ID_KEEP) \o <<"-">> \o Take(md5_hexdigest(id1), HASH_LEN)
        ELSE id1

\* lines 96-105
map_availability(availability) == Get(avail_map, availability, <<"i","n","_","s","t","o","c","k">> (* in_stock *))

\* check_required testing the title alone
check_required_title_only(product) ==
    IF product.title = << >> THEN None ELSE product

\* lines 142-145
check_required(product) ==
    IF product.title = << >> \/ product.price = << >> THEN None ELSE product

\* lines 93-140, for the Product document jsonld (a dict) and the og tags
build_product(url, jsonld, og) ==
    LET offers == Get(jsonld, "offers", Obj(EmptyDict)) IN
    IF ~IsObj(offers) THEN Raise("AttributeError")
    ELSE
    LET price == Get(offers.obj, "price", << >>)
        currency == Get(offers.obj, "priceCurrency", <<"T","R","Y">> (* TRY *))
        availability == Get(offers.obj, "availability", << >>)
        g_availability == map_availability(availability)
        g_condition == Get(cond_map, Get(offers.obj, "itemCondition", << >>), <<"n","e","w">> (* new *))
        brand == Get(jsonld, "brand", Obj(EmptyDict))
    IN
    IF ~IsObj(brand) THEN Raise("AttributeError")
    ELSE
    LET product ==
            [id |-> normalize_id(Get(jsonld, "sku", << >>), url),
             title |-> Get(jsonld, "name", Get(og, "title", << >>)),
             description |->
                 Take(Strip(Or(Get(jsonld, "description", << >>),
                               Get(og, "meta_description", << >>))), DESC_MAX),
             link |-> url,
             image_link |-> Get(jsonld, "image", Get(og, "image", << >>)),
             price |-> IF price # << >> THEN price \o <<" ">> \o currency ELSE << >>,
             availability |-> g_availability,
             condition |-> g_condition,
             brand |-> Get(brand.obj, "name", << >>),
             mpn |-> Get(jsonld, "mpn", << >>),
             gtin |-> Get(jsonld, "gtin13", Get(jsonld, "gtin", << >>)),
             category |-> Get(jsonld, "category", << >>),
             google_category |-> map_google_category(url)]
    IN  check_required(product)

\* scrape_product(url), net being the answers of the network for this url:
\* a product record, None, or the exception that leaves the call
scrape_product(url, net) ==
    LET html == fetch_url(net, DEFAULT_RETRIES) IN
    IF NotText(html) THEN None
    ELSE LET jsonld == extract_product_jsonld(html)
             og == extract_og_tags(html)
         IN  IF IsRaise(jsonld) THEN jsonld
             ELSE IF IsNone(jsonld) THEN None
             ELSE build_product(url, jsonld.obj, og)

IsProduct(v) == "link" \in DOMAIN v

---------------------------------------------------------------------------
(* escape_xml, generate_feed *)

escape_xml(text) ==
    IF text = << >> THEN << >>
    ELSE Replace(Replace(Replace(Replace(Replace(text,
             "&", <<"&","a","m","p",";">> (* &amp; *)), "<", <<"&","l","t",";">> (* &lt; *)), ">", <<"&","g","t",";">> (* &gt; *)), "\"", <<"&","q","u","o","t",";">> (* &quot; *)), "'", <<"&","a","p","o","s",";">> (* &apos; *))

\* gtin_lines appending the identifier_exists flag unconditionally
gtin_lines_both(p) ==
    (IF p.gtin # << >>
     THEN << <<" "," "," "," "," "," ","<","g",":","g","t","i","n",">">> (*       <g:gtin> *) \o escape_xml(p.gtin) \o <<"<","/","g",":","g","t","i","n",">">> (* </g:gtin> *) >> ELSE << >>)
    \o << <<" "," "," "," "," "," ","<","g",":","i","d","e","n","t","i","f","i","e","r","_","e","x","i","s","t","s",">","f","a","l","s","e","<","/","g",":","i","d","e","n","t","i","f","i","e","r","_","e","x","i","s","t","s",">">> (*       <g:identifier_exists>false</g:identifier_exists> *) >>

\* lines 216-221
gtin_lines(p) ==
    IF p.gtin # << >>
    THEN << <<" "," "," "," "," "," ","<","g",":","g","t","i","n",">">> (*       <g:gtin> *) \o escape_xml(p.gtin) \o <<"<","/","g",":","g","t","i","n",">">> (* </g:gtin> *) >>
    ELSE << <<" "," "," "," "," "," ","<","g",":","i","d","e","n","t","i","f","i","e","r","_","e","x","i","s","t","s",">","f","a","l","s","e","<","/","g",":","i","d","e","n","t","i","f","i","e","r","_","e","x","i","s","t","s",">">> (*       <g:identifier_exists>false</g:identifier_exists> *) >>

\* lines 199-225: the lines of one item
item_lines(p) ==
    << <<" "," "," "," ","<","i","t","e","m",">">> (*     <item> *),
       <<" "," "," "," "," "," ","<","g",":","i","d",">">> (*       <g:id> *) \o escape_xml(p.id) \o <<"<","/","g",":","i","d",">">> (* </g:id> *),
       <<" "," "," "," "," "," ","<","g",":","t","i","t","l","e",">">> (*       <g:title> *) \o escape_xml(Take(p.title, TITLE_MAX)) \o <<"<","/","g",":","t","i","t","l","e",">">> (* </g:title> *),
       <<" "," "," "," "," "," ","<","g",":","d","e","s","c","r","i","p","t","i","o","n",">">> (*       <g:description> *) \o escape_xml(Take(p.description, DESC_MAX)) \o <<"<","/","g",":","d","e","s","c","r","i","p","t","i","o","n",">">> (* </g:description> *),
       <<" "," "," "," "," "," ","<","g",":","l","i","n","k",">">> (*       <g:link> *) \o escape_xml(p.link) \o <<"<","/","g",":","l","i","n","k",">">> (* </g:link> *),
       <<" "," "," "," "," "," ","<","g",":","i","m","a","g","e","_","l","i","n","k",">">> (*       <g:image_link> *) \o escape_xml(p.image_link) \o <<"<","/","g",":","i","m","a","g","e","_","l","i","n","k",">">> (* </g:image_link> *),
       <<" "," "," "," "," "," ","<","g",":","p","r","i","c","e",">">> (*       <g:price> *) \o escape_xml(p.price) \o <<"<","/","g",":","p","r","i","c","e",">">> (* </g:price> *),
       <<" "," "," "," "," "," ","<","g",":","a","v","a","i","l","a","b","i","l","i","t","y",">">> (*       <g:availability> *) \o p.availability \o <<"<","/","g",":","a","v","a","i","l","a","b","i","l","i","t","y",">">> (* </g:availability> *),
       <<" "," "," "," "," "," ","<","g",":","c","o","n","d","i","t","i","o","n",">">> (*       <g:condition> *) \o p.condition \o <<"<","/","g",":","c","o","n","d","i","t","i","o","n",">">> (* </g:condition> *) >>
    \o (IF p.brand # << >>
        THEN << <<" "," "," "," "," "," ","<","g",":","b","r","a","n","d",">">> (*       <g:brand> *) \o escape_xml(p.brand) \o <<"<","/","g",":","b","r","a","n","d",">">> (* </g:brand> *) >> ELSE << >>)
    \o (IF p.mpn # << >>
        THEN << <<" "," "," "," "," "," ","<","g",":","m","p","n",">">> (*       <g:mpn> *) \o escape_xml(p.mpn) \o <<"<","/","g",":","m","p","n",">">> (* </g:mpn> *) >> ELSE << >>)
    \o gtin_lines(p)
    \o << <<" "," "," "," "," "," ","<","g",":","g","o","o","g","l","e","_","p","r","o","d","u","c","t","_","c","a","t","e","g","o","r","y",">">> (*       <g:google_product_category> *)
              \o escape_xml(Get(p, "google_category", CatInverters))
              \o <<"<","/","g",":","g","o","o","g","l","e","_","p","r","o","d","u","c","t","_","c","a","t","e","g","o","r","y",">">> (* </g:google_product_category> *),
          <<" "," "," "," ","<","/","i","t","e","m",">">> (*     </item> *) >>

RECURSIVE all_item_lines(_)
all_item_lines(ps) ==
    IF ps = << >> THEN << >> ELSE item_lines(Head(ps)) \o all_item_lines(Tail(ps))

\* The string returned, "\n".join(lines), is represented by the sequence of
\* its lines: no string of the model holds a line break.  The channel title
\* and description are written without their diacritics.
generate_feed(ps) ==
        << <<"<","?","x","m","l"," ","v","e","r","s","i","o","n","=","\"","1",".","0","\""," ","e","n","c","o","d","i","n","g","=","\"","U","T","F","-","8","\"","?",">">> (* <?xml version="1.0" encoding="UTF-8"?> *),
            <<"<","r","s","s"," ","v","e","r","s","i","o","n","=","\"","2",".","0","\""," ","x","m","l","n","s",":","g","=","\"","h","t","t","p",":","/","/","b","a","s","e",".","g","o","o","g","l","e",".","c","o","m","/","n","s","/","1",".","0","\"",">">> (* <rss version="2.0" xmlns:g="http://base.google.com/ns/1.0"> *),
            <<" "," ","<","c","h","a","n","n","e","l",">">> (*   <channel> *),
            <<" "," "," "," ","<","t","i","t","l","e",">","T","u","r","k","i","y","e"," ","S","o","l","a","r"," ","M","a","r","k","e","t"," ","-"," ","U","r","u","n"," ","K","a","t","a","l","o","g","u","<","/","t","i","t","l","e",">">> (*     <title>Turkiye Solar Market - Urun Katalogu</title> *),
            <<" "," "," "," ","<","l","i","n","k",">","h","t","t","p","s",":","/","/","w","w","w",".","t","u","r","k","i","y","e","s","o","l","a","r","m","a","r","k","e","t",".","c","o","m",".","t","r","<","/","l","i","n","k",">">> (*     <link>https://www.turkiyesolarmarket.com.tr</link> *),
            <<" "," "," "," ","<","d","e","s","c","r","i","p","t","i","o","n",">","S","o","l","a","r"," ","e","n","e","r","j","i"," ","e","k","i","p","m","a","n","l","a","r","i"," ","-"," ","i","n","v","e","r","t","e","r",","," ","p","a","n","e","l",","," ","p","i","l",","," ","s","a","r","j"," ","c","i","h","a","z","i","<","/","d","e","s","c","r","i","p","t","i","o","n",">">> (*     <description>Solar enerji ekipmanlari - inverter, panel, pil, sarj cihazi</description> *) >>
         \o all_item_lines(ps)
         \o << <<" "," ","<","/","c","h","a","n","n","e","l",">">> (*   </channel> *), <<"<","/","r","s","s",">">> (* </rss> *) >>

---------------------------------------------------------------------------
(* main *)

MIN_PRODUCTS == 10

NoFile == [written |-> FALSE, content |-> << >>]

\* list.sort(key=lambda p: p["title"]): a stable sort
RECURSIVE insert_by_title(_, _)
insert_by_title(sorted, p) ==
    IF sorted = << >> THEN <<p>>
    ELSE IF StrLess(p.title, Head(sorted).title) THEN <<p>> \o sorted
    ELSE <<Head(sorted)>> \o insert_by_title(Tail(sorted), p)

RECURSIVE sort_prefix(_, _)
sort_prefix(ps, n) ==
    IF n = 0 THEN << >> ELSE insert_by_title(sort_prefix(ps, n - 1), ps[n])

\* sort_by_title leaving the list in collection order
sort_by_title_unsorted(ps) == ps

sort_by_title(ps) == sort_prefix(ps, Len(ps))

\* collect_result dropping a raised exception without counting it
collect_result_uncounted(prods, errs, res) ==
    IF IsRaise(res) THEN [products |-> prods, errors |-> errs]
    ELSE IF IsProduct(res) THEN [products |-> Append(prods, res), errors |-> errs]
    ELSE [products |-> prods, errors |-> errs + 1]

\* lines 248-255: what the loop body does with the result of one future
collect_result(prods, errs, res) ==
    IF IsRaise(res) THEN [products |-> prods, errors |-> errs + 1]
    ELSE IF IsProduct(res) THEN [products |-> Append(prods, res), errors |-> errs]
    ELSE [products |-> prods, errors |-> errs + 1]

\* get_product_urls, lines 41-44: the sitemap text, or the fatal exit
GetProductUrlsFail ==
    /\ pc = "start"
    /\ NotText(fetch_url(world.sitemap, DEFAULT_RETRIES))
    /\ pc' = "exit_sitemap"
    /\ exit_code' = 1
    /\ UNCHANGED <<world, urls, fut, products, errors, done, xml_content, file,
                   feed_calls, arg, ret>>

\* get_product_urls, lines 45-50
GetProductUrls ==
    /\ pc = "start"
    /\ ~NotText(fetch_url(world.sitemap, DEFAULT_RETRIES))
    /\ urls' = fetch_url(world.sitemap, DEFAULT_RETRIES).locs
    /\ pc' = "submit"
    /\ UNCHANGED <<world, fut, products, errors, done, xml_content, file,
                   feed_calls, exit_code, arg, ret>>

\* lines 239-245: one future per url
Submit ==
    /\ pc = "submit"
    /\ products' = << >>
    /\ errors' = 0
    /\ done' = 0
    /\ fut' = [i \in 1..Len(urls) |-> [state |-> "pending", result |-> None]]
    /\ pc' = "as_completed"
    /\ UNCHANGED <<world, urls, xml_content, file, feed_calls, exit_code, arg, ret>>

\* Future i completes (its worker has run scrape_product(urls[i])) and
\* as_completed yields it: one iteration of the loop, lines 246-255.
Complete(i) ==
    /\ pc = "as_completed"
    /\ fut[i].state = "pending"
    /\ LET res == scrape_product(urls[i], world.pages[i])
           c == collect_result(products, errors, res)
       IN  /\ fut' = [fut EXCEPT ![i] = [state |-> "done", result |-> res]]
           /\ done' = done + 1
           /\ products' = c.products
           /\ errors' = c.errors
    /\ UNCHANGED <<pc, world, urls, xml_content, file, feed_calls, exit_code, arg, ret>>

\* as_completed is exhausted, the executor is shut down; line 262
SortProducts ==
    /\ pc = "as_completed"
    /\ \A i \in 1..Len(fut) : fut[i].state = "done"
    /\ products' = sort_by_title(products)
    /\ pc' = "generate"
    /\ UNCHANGED <<world, urls, fut, errors, done, xml_content, file, feed_calls,
                   exit_code, arg, ret>>

\* line 265
GenerateFeed ==
    /\ pc = "generate"
    /\ xml_content' = generate_feed(products)
    /\ feed_calls' = feed_calls + 1
    /\ pc' = "write"
    /\ UNCHANGED <<world, urls, fut, products, errors, done, file, exit_code, arg, ret>>

\* lines 267-268
WriteFile ==
    /\ pc = "write"
    /\ file' = [written |-> TRUE, content |-> xml_content]
    /\ pc' = "summary"
    /\ UNCHANGED <<world, urls, fut, products, errors, done, xml_content, feed_calls,
                   exit_code, arg, ret>>

\* lines 270-285: the summary, then the threshold
Finish ==
    /\ pc = "summary"
    /\ IF Len(products) < MIN_PRODUCTS
       THEN pc' = "exit_few" /\ exit_code' = 1
       ELSE pc' = "exit_ok" /\ exit_code' = 0
    /\ UNCHANGED <<world, urls, fut, products, errors, done, xml_content, file,
                   feed_calls, arg, ret>>

Next ==
    \/ GetProductUrlsFail
    \/ GetProductUrls
    \/ Submit
    \/ \E i \in 1..Len(fut) : Complete(i)
    \/ SortProducts
    \/ GenerateFeed
    \/ WriteFile
    \/ Finish

---------------------------------------------------------------------------
(* The inputs: what the site answers *)

MaxUrls == 3

MaxIdLen == 60

MaxRetries == 2

MaxBlocks == 3

MaxFrags == 2

Prefix == <<"h","t","t","p","s",":","/","/","w","w","w",".","t","u","r","k","i","y","e","s","o","l","a","r","m","a","r","k","e","t",".","c","o","m",".","t","r","/","u","r","u","n","l","e","r","/">> (* https://www.turkiyesolarmarket.com.tr/urunler/ *)

Digits == <<"0","1","2","3","4","5","6","7","8","9">> (* 0123456789 *)

Url(i) == Prefix \o <<"u","r","u","n","-">> (* urun- *) \o <<Digits[(i % 10) + 1]>>

\* The network answers `text` at once (no later answer is asked for) / never
\* answers / answers at the last attempt.
Reach(text) == <<text>>

Unreachable == [k \in 1..(DEFAULT_RETRIES + 1) |-> Fail("URLError")]

Flaky(text) ==
    [k \in 1..(DEFAULT_RETRIES + 1) |-> IF k <= DEFAULT_RETRIES THEN Fail("HTTPError") ELSE text]

Page(blocks, og) == Text(blocks, og, << >>)

Sitemap(locs) == Text(<< >>, EmptyDict, locs)

ProductDoc(fields) == Obj(("@type" :> <<"P","r","o","d","u","c","t">> (* Product *)) @@ fields)

Offer(price) == Obj([price |-> price])

GoodPage(title) == Page(<<ProductDoc([name |-> title, offers |-> Offer(<<"1","0","0">> (* 100 *))])>>, EmptyDict)

NoPricePage == Page(<<ProductDoc([name |-> <<"K","a","b","l","o">> (* Kablo *), offers |-> Obj([priceCurrency |-> <<"T","R","Y">> (* TRY *)])])>>, EmptyDict)

ArrayPage == Page(<<NonObj("array"), ProductDoc([name |-> <<"P","a","n","o">> (* Pano *), offers |-> Offer(<<"5">>)])>>, EmptyDict)

UnitKinds ==
    {Reach(GoodPage(<<"I","n","v","e","r","t","e","r">> (* Inverter *))), Reach(GoodPage(<<"A","k","u">> (* Aku *))), Reach(NoPricePage),
     Unreachable, Reach(ArrayPage)}

SmallWorlds ==
    UNION {{[sitemap |-> Reach(Sitemap([i \in 1..n |-> Url(i)])), pages |-> ps] :
                ps \in [1..n -> UnitKinds]} : n \in 0..MaxUrls}

SitemapWorlds ==
    {[sitemap |-> Unreachable, pages |-> << >>],
     [sitemap |-> Reach(EmptyText), pages |-> << >>],
     [sitemap |-> Flaky(Sitemap(<<Url(1)>>)), pages |-> <<Flaky(GoodPage(<<"I","n","v","e","r","t","e","r">> (* Inverter *)))>>]}

\* The same URL listed n times (the sitemap's duplicates are kept), the
\* last `bad` of them unreachable.
BigWorld(n, bad) ==
    [sitemap |-> Reach(Sitemap([i \in 1..n |-> Url(0)])),
     pages |-> [i \in 1..n |-> IF i > n - bad THEN Unreachable ELSE Reach(GoodPage(<<"I","n","v","e","r","t","e","r">> (* Inverter *)))]]

BigWorlds == {BigWorld(MIN_PRODUCTS, 0), BigWorld(MIN_PRODUCTS, 1)}

\* One page under study: a sitemap with the single url, answered by net.
IdChars == <<"a","b","c","d","e","f","g","h","i","j">> (* abcdefghij *)

LongStr(n) == [i \in 1..n |-> IdChars[((i - 1) % Len(IdChars)) + 1]]

LongStrZ(n) == [i \in 1..n |-> IF i = n THEN "Z" ELSE LongStr(n)[i]]

SkuLens == {1} \cup ((ID_MAX - 2)..(ID_MAX + 2)) \cup {MaxIdLen}

Skus == {LongStr(n) : n \in SkuLens} \cup {LongStrZ(n) : n \in SkuLens}

SkuFields == {EmptyDict, [sku |-> << >>]} \cup {[sku |-> s] : s \in Skus}

IdUrls ==
    {Prefix \o <<"i","n","v","e","r","t","e","r","-","5","k","w">> (* inverter-5kw *), Prefix \o <<"i","n","v","e","r","t","e","r","-","5","k","w","/">> (* inverter-5kw/ *), Prefix \o <<"/">>,
     Prefix \o LongStr(ID_MAX + 1), Prefix \o LongStrZ(MaxIdLen) \o <<"/","/">>,
     Prefix \o <<"p","a","n","e","l","/">> (* panel/ *) \o LongStr(ID_MAX)}

BaseFields == [name |-> <<"I","n","v","e","r","t","e","r"," ","5","k","W">> (* Inverter 5kW *), offers |-> Offer(<<"1","0","0">> (* 100 *))]

IdCases ==
    {[url |-> u, net |-> Reach(Page(<<ProductDoc(f @@ BaseFields)>>, EmptyDict))] :
        u \in IdUrls, f \in SkuFields}

AvailValues ==
    {<<"h","t","t","p","s",":","/","/","s","c","h","e","m","a",".","o","r","g","/","I","n","S","t","o","c","k">> (* https://schema.org/InStock *), <<"h","t","t","p","s",":","/","/","s","c","h","e","m","a",".","o","r","g","/","O","u","t","O","f","S","t","o","c","k">> (* https://schema.org/OutOfStock *),
     <<"h","t","t","p","s",":","/","/","s","c","h","e","m","a",".","o","r","g","/","P","r","e","O","r","d","e","r">> (* https://schema.org/PreOrder *), <<"h","t","t","p",":","/","/","s","c","h","e","m","a",".","o","r","g","/","I","n","S","t","o","c","k">> (* http://schema.org/InStock *),
     <<"h","t","t","p",":","/","/","s","c","h","e","m","a",".","o","r","g","/","O","u","t","O","f","S","t","o","c","k">> (* http://schema.org/OutOfStock *), <<"h","t","t","p",":","/","/","s","c","h","e","m","a",".","o","r","g","/","P","r","e","O","r","d","e","r">> (* http://schema.org/PreOrder *),
     <<"h","t","t","p","s",":","/","/","s","c","h","e","m","a",".","o","r","g","/","D","i","s","c","o","n","t","i","n","u","e","d">> (* https://schema.org/Discontinued *), <<"I","n","S","t","o","c","k">> (* InStock *), << >>}

AvailOffers ==
    {Obj([price |-> <<"1","0","0">> (* 100 *), availability |-> a]) : a \in AvailValues}
    \cup {Obj([price |-> <<"1","0","0">> (* 100 *), itemCondition |-> <<"h","t","t","p","s",":","/","/","s","c","h","e","m","a",".","o","r","g","/","U","s","e","d","C","o","n","d","i","t","i","o","n">> (* https://schema.org/UsedCondition *)])}

AvailCases ==
    {[url |-> Url(1),
      net |-> Reach(Page(<<ProductDoc([name |-> <<"I","n","v","e","r","t","e","r">> (* Inverter *), sku |-> <<"S","K","U","-","1">> (* SKU-1 *), offers |-> o])>>,
                         EmptyDict))] : o \in AvailOffers}

NameFields == {EmptyDict, [name |-> << >>], [name |-> <<"P","a","n","e","l">> (* Panel *)]}

OgDicts ==
    {EmptyDict, [title |-> << >>],
     [title |-> <<"O","g"," ","T","i","t","l","e">> (* Og Title *), image |-> <<"h","t","t","p","s",":","/","/","i","m","g","/","x",".","j","p","g">> (* https://img/x.jpg *), meta_description |-> <<" "," ","d","e","s","c"," "," ">> (*   desc   *)]}

OfferFields ==
    {EmptyDict, [offers |-> Obj(EmptyDict)], [offers |-> Offer(<< >>)],
     [offers |-> Offer(<<"1","0","0">> (* 100 *))], [offers |-> NonObj("array")],
     [offers |-> Obj([price |-> <<"9",".","9","9">> (* 9.99 *), priceCurrency |-> <<"U","S","D">> (* USD *)])]}

ReqCases ==
    {[url |-> Url(2), net |-> Reach(Page(<<ProductDoc(n @@ o)>>, og))] :
        n \in NameFields, o \in OfferFields, og \in OgDicts}

Gtin13Fields == {EmptyDict, [gtin13 |-> << >>], [gtin13 |-> <<"8","6","9","0","0","0","1","1","1","2","2","2","3">> (* 8690001112223 *)]}

GtinFields ==
    {EmptyDict, [gtin |-> << >>], [gtin |-> <<"1","2","3","4","5","6","7","8">> (* 12345678 *)], [gtin |-> <<"<","g",":","g","t","i","n",">","&","'","\"">> (* <g:gtin>&'" *)]}

GtinNames ==
    {<<"I","n","v","e","r","t","e","r">> (* Inverter *), <<"<","g",":","g","t","i","n",">","1","<","/","g",":","g","t","i","n",">">> (* <g:gtin>1</g:gtin> *), <<"<","g",":","i","d","e","n","t","i","f","i","e","r","_","e","x","i","s","t","s",">","f","a","l","s","e","<","/","g",":","i","d","e","n","t","i","f","i","e","r","_","e","x","i","s","t","s",">">> (* <g:identifier_exists>false</g:identifier_exists> *)}

GtinCases ==
    {[url |-> Url(3),
      net |-> Reach(Page(<<ProductDoc(g13 @@ g @@
                                      [name |-> n, offers |-> Offer(<<"1","0","0">> (* 100 *)), mpn |-> <<"M","-","1">> (* M-1 *),
                                       brand |-> Obj([name |-> <<"F","r","o","n","i","u","s"," ","&"," ","C","o">> (* Fronius & Co *)])])>>,
                         EmptyDict))] :
        g13 \in Gtin13Fields, g \in GtinFields, n \in GtinNames}

OtherDoc == Obj(("@type" :> <<"O","r","g","a","n","i","z","a","t","i","o","n">> (* Organization *)) @@ [name |-> <<"S","o","l","a","r"," ","M","a","r","k","e","t">> (* Solar Market *)])

UntypedDoc == Obj([name |-> <<"B","r","e","a","d","c","r","u","m","b">> (* Breadcrumb *)])

BlockNets ==
    {Reach(EmptyText), Unreachable, Flaky(GoodPage(<<"I","n","v","e","r","t","e","r">> (* Inverter *))),
     Reach(Page(<< >>, [title |-> <<"O","g"," ","T","i","t","l","e">> (* Og Title *)])),
     Reach(Page(<<JsonError, ProductDoc(BaseFields)>>, EmptyDict)),
     Reach(Page(<<OtherDoc, UntypedDoc, ProductDoc(BaseFields)>>, EmptyDict)),
     Reach(Page(<<NonObj("array"), ProductDoc(BaseFields)>>, EmptyDict)),
     Reach(Page(<<OtherDoc, NonObj("string")>>, EmptyDict)),
     Reach(Page(<<ProductDoc(BaseFields @@ [brand |-> NonObj("string")])>>, EmptyDict))}

BlockCases == {[url |-> Url(4), net |-> n] : n \in BlockNets}

PageCases == IdCases \cup AvailCases \cup ReqCases \cup GtinCases \cup BlockCases

PageWorlds ==
    {[sitemap |-> Reach(Sitemap(<<c.url>>)), pages |-> <<c.net>>] : c \in PageCases}

\* two units with long SKUs, equal or differing in their last character
PairWorlds ==
    {[sitemap |-> Reach(Sitemap(<<Url(1), Url(2)>>)),
      pages |-> <<Reach(Page(<<ProductDoc([sku |-> a] @@ BaseFields)>>, EmptyDict)),
                  Reach(Page(<<ProductDoc([sku |-> b] @@ BaseFields)>>, EmptyDict))>>] :
        a, b \in {LongStr(ID_MAX + 1), LongStrZ(ID_MAX + 1)}}

Worlds == SmallWorlds \cup SitemapWorlds \cup BigWorlds \cup PageWorlds \cup PairWorlds

Init ==
    /\ pc = "start"
    /\ world \in Worlds
    /\ urls = << >>
    /\ fut = << >>
    /\ products = << >>
    /\ errors = 0
    /\ done = 0
    /\ xml_content = << >>
    /\ file = NoFile
    /\ feed_calls = 0
    /\ exit_code = -1
    /\ arg = None
    /\ ret = None

Spec == Init /\ [][Next]_vars

---------------------------------------------------------------------------
(* The functions called on their own *)

NoWorld == [sitemap |-> << >>, pages |-> << >>]

InitCall(args) ==
    /\ pc = "call"
    /\ arg \in args
    /\ ret = None
    /\ world = NoWorld
    /\ urls = << >>
    /\ fut = << >>
    /\ products = << >>
    /\ errors = 0
    /\ done = 0
    /\ xml_content = << >>
    /\ file = NoFile
    /\ feed_calls = 0
    /\ exit_code = -1

Return(value) ==
    /\ pc = "call"
    /\ ret' = value
    /\ pc' = "returned"
    /\ UNCHANGED <<world, urls, fut, products, errors, done, xml_content, file,
                   feed_calls, exit_code, arg>>

\* fetch_url(url, retries)
Outcomes ==
    {Fail("HTTPError"), Fail("URLError"), Fail("timeout"), EmptyText, GoodPage(<<"I","n","v","e","r","t","e","r">> (* Inverter *))}

FetchArgs ==
    UNION {{[retries |-> r, net |-> n] : n \in [1..(r + 1) -> Outcomes]} : r \in 0..MaxRetries}

CallFetchUrl == Return(fetch_loop(arg.net, arg.retries, 0))

SpecFetch == InitCall(FetchArgs) /\ [][CallFetchUrl]_vars

\* map_google_category(url)
Frags ==
    {<<"s","o","l","a","r","-","p","a","n","e","l">> (* solar-panel *), <<"S","o","l","a","r","-","P","A","N","E","L">> (* Solar-PANEL *), <<"g","u","n","e","s","-","p","a","n","e","l","i">> (* gunes-paneli *), <<"b","a","t","a","r","y","a">> (* batarya *), <<"e","n","e","r","j","i","-","d","e","p","o","l","a","m","a">> (* enerji-depolama *),
     <<"s","a","r","j","-","k","a","b","l","o","s","u">> (* sarj-kablosu *), <<"w","a","t","t","p","i","l","o","t">> (* wattpilot *), <<"s","o","l","a","r","-","k","a","b","l","o">> (* solar-kablo *), <<"k","o","n","n","e","k","t","o","r">> (* konnektor *), <<"s","o","l","a","r","-","m","a","l","z","e","m","e">> (* solar-malzeme *),
     <<"p","a","n","o">> (* pano *), <<"s","i","g","o","r","t","a">> (* sigorta *), <<"i","n","v","e","r","t","e","r","-","5","k","w">> (* inverter-5kw *), <<"s","o","l","a","r","-","p","a","n","e">> (* solar-pane *), <<"K","A","B","L","O">> (* KABLO *)}

RECURSIVE JoinFrags(_)
JoinFrags(fs) ==
    IF fs = << >> THEN << >>
    ELSE IF Len(fs) = 1 THEN fs[1]
    ELSE fs[1] \o <<"/">> \o JoinFrags(Tail(fs))

CategoryArgs ==
    UNION {{Prefix \o JoinFrags(fs) : fs \in [1..n -> Frags]} : n \in 1..MaxFrags}

CallMapGoogleCategory == Return(map_google_category(arg))

SpecCategory == InitCall(CategoryArgs) /\ [][CallMapGoogleCategory]_vars

\* extract_product_jsonld(html)
BlockKinds ==
    {JsonError, NonObj("array"), OtherDoc, UntypedDoc, ProductDoc(BaseFields),
     ProductDoc([name |-> <<"S","e","c","o","n","d">> (* Second *)])}

JsonldArgs ==
    UNION {{Page(bs, EmptyDict) : bs \in [1..n -> BlockKinds]} : n \in 0..MaxBlocks}

CallExtractProductJsonld == Return(extract_product_jsonld(arg))

SpecJsonld == InitCall(JsonldArgs) /\ [][CallExtractProductJsonld]_vars

---------------------------------------------------------------------------
(* Properties *)

Range(seq) == {seq[i] : i \in 1..Len(seq)}

Count(seq, x) == Cardinality({i \in 1..Len(seq) : seq[i] = x})

AfterLoop == {"generate", "write", "summary", "exit_few", "exit_ok"}

AfterGenerate == {"write", "summary", "exit_few", "exit_ok"}

DoneUnits == {i \in 1..Len(fut) : fut[i].state = "done"}

Accepted == {i \in DoneUnits : IsProduct(fut[i].result)}

Rejected == DoneUnits \ Accepted

\* C1: a run that collected fewer than 10 products exits with a non-zero code
\* and has not written the feed file.
C1_FewProductsWriteNothing ==
    /\ (pc \in {"exit_few", "exit_ok"} /\ Len(products) < MIN_PRODUCTS) => exit_code > 0
    /\ pc = "exit_few" => ~file.written

\* the index of the first answer that is no failure among the first n, or 0
FirstOk(net, n) ==
    LET last == IF n < Len(net) THEN n ELSE Len(net)
    IN  IF \E k \in 1..last : ~IsFail(net[k])
        THEN CHOOSE k \in 1..last : ~IsFail(net[k]) /\ \A j \in 1..(k - 1) : IsFail(net[j])
        ELSE 0

\* C2: fetch_url makes at most retries + 1 attempts; it returns the text of the
\* first successful attempt and attempts nothing after it; it sleeps exactly
\* between a failed attempt and the next one, never after the last; after
\* retries + 1 failures of any kind it returns None.
C2_FetchUrlBounded ==
    pc = "returned" =>
        LET n == arg.retries + 1
            k == FirstOk(arg.net, n)
            log == ret.log
            attempts == Count(log, "urlopen")
            sleeps == Count(log, "sleep")
        IN  /\ attempts <= n
            /\ k > 0 => (ret.ret = arg.net[k] /\ attempts = k)
            /\ k = 0 => (IsNone(ret.ret) /\ attempts = n)
            /\ sleeps = attempts - 1
            /\ \A i \in 1..Len(log) : log[i] = (IF i % 2 = 1 THEN "urlopen" ELSE "sleep")

C2_Witness ==
    /\ pc = "returned"
    /\ arg.retries = DEFAULT_RETRIES
    /\ arg.net = <<Fail("HTTPError"), Fail("URLError"), Fail("timeout")>>
    /\ IsNone(ret.ret)
    /\ ret.log = <<"urlopen", "sleep", "urlopen", "sleep", "urlopen">>

\* C5: every per-page failure (None or an exception) is counted as exactly one
\* error and stops nothing: the collected products and the errors add up to the
\* completed units, and to the discovered URLs once the loop has ended.
C5_FailuresCountedOnce ==
    /\ pc \in {"as_completed"} \cup AfterLoop =>
          /\ Len(fut) = Len(urls)
          /\ errors = Cardinality(Rejected)
          /\ Len(products) = Cardinality(Accepted)
          /\ done = Cardinality(DoneUnits)
    /\ pc = "as_completed" => exit_code = -1
    /\ pc \in AfterLoop => Len(products) + errors = Len(urls)

C5_Witness ==
    /\ pc = "summary"
    /\ world.pages = <<Reach(GoodPage(<<"I","n","v","e","r","t","e","r">> (* Inverter *))), Reach(NoPricePage), Unreachable>>
    /\ Len(urls) = 3
    /\ Len(products) = 1
    /\ errors = 2

C5_WitnessException ==
    /\ pc = "summary"
    /\ \E i \in DoneUnits : IsRaise(fut[i].result)
    /\ Len(products) + errors = Len(urls)

\* c occurs in s at position i, whatever the letter case of s
MatchesNoCase(s, i, pat) ==
    /\ i + Len(pat) - 1 <= Len(s)
    /\ \A k \in 1..Len(pat) : LowerChar(s[i + k - 1]) = pat[k]

ContainsNoCase(s, pat) == \E i \in 1..Len(s) : MatchesNoCase(s, i, pat)

\* the ordered list of (pattern set, category) pairs
Groups ==
    << [pats |-> {<<"s","o","l","a","r","-","p","a","n","e","l">> (* solar-panel *), <<"g","u","n","e","s","-","p","a","n","e","l","i">> (* gunes-paneli *)}, cat |-> CatSolarPanels],
       [pats |-> {<<"l","i","t","y","u","m","-","p","i","l">> (* lityum-pil *), <<"b","a","t","a","r","y","a">> (* batarya *), <<"r","e","s","e","r","v","a">> (* reserva *), <<"e","n","e","r","j","i","-","d","e","p","o","l","a","m","a">> (* enerji-depolama *)}, cat |-> CatBatteries],
       [pats |-> {<<"s","a","r","j","-","c","i","h","a","z","i">> (* sarj-cihazi *), <<"w","a","t","t","p","i","l","o","t">> (* wattpilot *), <<"s","a","r","j","-","k","a","b","l","o","s","u">> (* sarj-kablosu *), <<"e","v","-","s","a","r","j">> (* ev-sarj *)}, cat |-> CatCharging],
       [pats |-> {<<"s","o","l","a","r","-","k","a","b","l","o">> (* solar-kablo *), <<"k","o","n","n","e","k","t","o","r">> (* konnektor *), <<"k","a","b","l","o">> (* kablo *)}, cat |-> CatCables],
       [pats |-> {<<"s","o","l","a","r","-","m","a","l","z","e","m","e">> (* solar-malzeme *), <<"p","a","n","o">> (* pano *), <<"s","i","g","o","r","t","a">> (* sigorta *)}, cat |-> CatKits] >>

GroupMatches(g, url) == \E pat \in Groups[g].pats : ContainsNoCase(url, pat)

FirstMatch(url) ==
    IF \E g \in 1..Len(Groups) : GroupMatches(g, url)
    THEN Groups[CHOOSE g \in 1..Len(Groups) :
                    GroupMatches(g, url) /\ \A h \in 1..(g - 1) : ~GroupMatches(h, url)].cat
    ELSE CatInverters

\* C8: map_google_category returns the category of the first group, in the
\* listed order, one of whose patterns occurs in the URL in any letter case,
\* and Power Inverters when none does; "solar-panel" always gives Solar Panels
\* and "sarj-kablosu" gives Motor Vehicle Charging, not Electrical Wires & Cable.
C8_FirstMatchWins ==
    pc = "returned" =>
        /\ ret = FirstMatch(arg)
        /\ ContainsNoCase(arg, <<"s","o","l","a","r","-","p","a","n","e","l">> (* solar-panel *)) => ret = CatSolarPanels
        /\ (ContainsNoCase(arg, <<"s","a","r","j","-","k","a","b","l","o","s","u">> (* sarj-kablosu *)) /\ ~GroupMatches(1, arg) /\ ~GroupMatches(2, arg))
              => ret = CatCharging
        /\ ret \in {CatSolarPanels, CatBatteries, CatCharging, CatCables, CatKits, CatInverters}

C8_Witness ==
    /\ pc = "returned"
    /\ arg = Prefix \o <<"S","o","l","a","r","-","P","A","N","E","L","/","s","a","r","j","-","k","a","b","l","o","s","u">> (* Solar-PANEL/sarj-kablosu *)
    /\ ret = CatSolarPanels

C8_WitnessCharging ==
    /\ pc = "returned"
    /\ arg = Prefix \o <<"s","a","r","j","-","k","a","b","l","o","s","u","/","K","A","B","L","O">> (* sarj-kablosu/KABLO *)
    /\ ret = CatCharging

IsProductBlock(b) == IsObj(b) /\ "@type" \in DOMAIN b.obj /\ b.obj["@type"] = <<"P","r","o","d","u","c","t">> (* Product *)

\* C10: extract_product_jsonld returns the first block, in document order,
\* that is a Product document, however many unusable blocks (malformed, or no
\* product document) precede it, and None, without raising, when there is none.
C10_UnusableBlocksSkipped ==
    pc = "returned" =>
        LET bs == arg.blocks IN
        IF \E k \in 1..Len(bs) : IsProductBlock(bs[k])
        THEN ret = bs[CHOOSE k \in 1..Len(bs) :
                         IsProductBlock(bs[k]) /\ \A j \in 1..(k - 1) : ~IsProductBlock(bs[j])]
        ELSE IsNone(ret)

\* What unit i's page holds: the text answered, its first Product document
\* and its og tags.
UnitText(i) == world.pages[i][FirstOk(world.pages[i], DEFAULT_RETRIES + 1)]

HasDoc(i) ==
    /\ FirstOk(world.pages[i], DEFAULT_RETRIES + 1) > 0
    /\ ~UnitText(i).empty
    /\ \E k \in 1..Len(UnitText(i).blocks) : IsProductBlock(UnitText(i).blocks[k])

DocOf(i) ==
    LET bs == UnitText(i).blocks
    IN  bs[CHOOSE k \in 1..Len(bs) :
               IsProductBlock(bs[k]) /\ \A j \in 1..(k - 1) : ~IsProductBlock(bs[j])].obj

OgOf(i) == UnitText(i).og

MissingTitle(i) == Get(DocOf(i), "name", Get(OgOf(i), "title", << >>)) = << >>

MissingPrice(i) ==
    LET d == DocOf(i)
    IN  IF "offers" \in DOMAIN d /\ IsObj(d.offers)
        THEN Get(d.offers.obj, "price", << >>) = << >>
        ELSE TRUE

RequiredPresent(p) ==
    /\ p.title # << >>
    /\ p.link # << >>
    /\ p.price # << >>
    /\ p.id # << >>
    /\ p.google_category # << >>

\* The items of a rendered feed
ItemStarts(xml) == {i \in 1..Len(xml) : xml[i] = <<" "," "," "," ","<","i","t","e","m",">">> (*     <item> *)}

ItemEnd(xml, s) ==
    CHOOSE e \in s..Len(xml) :
        xml[e] = <<" "," "," "," ","<","/","i","t","e","m",">">> (*     </item> *) /\ \A j \in s..(e - 1) : xml[j] # <<" "," "," "," ","<","/","i","t","e","m",">">> (*     </item> *)

NthItem(xml, k) ==
    LET s == CHOOSE t \in ItemStarts(xml) : Cardinality({u \in ItemStarts(xml) : u <= t}) = k
    IN  SubSeq(xml, s, ItemEnd(xml, s))

LinesWith(item, pat) == Cardinality({j \in 1..Len(item) : Contains(item[j], pat)})

\* the XML text of a string, character by character
XmlChar(c) ==
    CASE c = "&" -> <<"&","a","m","p",";">> (* &amp; *)
      [] c = "<" -> <<"&","l","t",";">> (* &lt; *)
      [] c = ">" -> <<"&","g","t",";">> (* &gt; *)
      [] c = "\"" -> <<"&","q","u","o","t",";">> (* &quot; *)
      [] c = "'" -> <<"&","a","p","o","s",";">> (* &apos; *)
      [] OTHER -> <<c>>

RECURSIVE XmlText(_)
XmlText(s) == IF s = << >> THEN << >> ELSE XmlChar(s[1]) \o XmlText(Tail(s))

\* C3: every record collected has a non-empty title, link, price, id and
\* google_category; a page whose title or price is empty after the fallbacks
\* yields no record, and the feed has no item for it.
C3_RequiredFields ==
    /\ \A k \in 1..Len(products) : RequiredPresent(products[k])
    /\ \A i \in Accepted : RequiredPresent(fut[i].result)
    /\ \A i \in DoneUnits :
          (HasDoc(i) /\ (MissingTitle(i) \/ MissingPrice(i))) => ~IsProduct(fut[i].result)
    /\ pc \in AfterGenerate =>
          /\ Cardinality(ItemStarts(xml_content)) = Cardinality(Accepted)
          /\ \A j \in 1..Len(xml_content) :
                /\ xml_content[j] # <<" "," "," "," "," "," ","<","g",":","t","i","t","l","e",">","<","/","g",":","t","i","t","l","e",">">> (*       <g:title></g:title> *)
                /\ xml_content[j] # <<" "," "," "," "," "," ","<","g",":","p","r","i","c","e",">","<","/","g",":","p","r","i","c","e",">">> (*       <g:price></g:price> *)

C3_Witness ==
    /\ pc = "write"
    /\ Len(products) = 1
    /\ \E i \in Rejected : HasDoc(i) /\ MissingPrice(i) /\ ~MissingTitle(i)
    /\ \E i \in Accepted : TRUE

C3_WitnessNoTitle ==
    /\ pc = "write"
    /\ \E i \in Rejected :
          /\ HasDoc(i) /\ MissingTitle(i) /\ ~MissingPrice(i)
          /\ Get(OgOf(i), "title", << >>) # << >>

\* the accepted results of units 1..n, in submission order
RECURSIVE AcceptedSeq(_)
AcceptedSeq(n) ==
    IF n = 0 THEN << >>
    ELSE IF n \in Accepted THEN Append(AcceptedSeq(n - 1), fut[n].result)
    ELSE AcceptedSeq(n - 1)

C4_SerializedOnceAfterAll ==
    /\ feed_calls = (IF pc \in AfterGenerate THEN 1 ELSE 0)
    /\ feed_calls > 0 => (Len(fut) = Len(urls) /\ DoneUnits = 1..Len(urls))

C4_SortedByTitle ==
    pc \in {"generate"} \cup AfterGenerate =>
        \A k \in 1..(Len(products) - 1) : ~StrLess(products[k + 1].title, products[k].title)

C4_SameItems ==
    pc \in {"generate"} \cup AfterGenerate =>
        \A x \in Range(products) \cup {fut[i].result : i \in Accepted} :
            Count(products, x) = Cardinality({i \in Accepted : fut[i].result = x})

C4_ItemsInListOrder ==
    pc \in AfterGenerate =>
        /\ Cardinality(ItemStarts(xml_content)) = Len(products)
        /\ \A k \in 1..Len(products) :
              LET item == NthItem(xml_content, k) IN
              /\ \E j \in 1..Len(item) :
                    item[j] = <<" "," "," "," "," "," ","<","g",":","t","i","t","l","e",">">> (*       <g:title> *) \o XmlText(Take(products[k].title, TITLE_MAX))
                                  \o <<"<","/","g",":","t","i","t","l","e",">">> (* </g:title> *)
              /\ \E j \in 1..Len(item) :
                    item[j] = <<" "," "," "," "," "," ","<","g",":","l","i","n","k",">">> (*       <g:link> *) \o XmlText(products[k].link) \o <<"<","/","g",":","l","i","n","k",">">> (* </g:link> *)

\* C4 as stated: the serializer runs once, after every unit has completed, the
\* items are in non-decreasing order of title, and the items and their order
\* are those of the run whose workers finish in submission order.
C4_OrderIndependent ==
    /\ C4_SerializedOnceAfterAll
    /\ C4_SortedByTitle
    /\ C4_SameItems
    /\ C4_ItemsInListOrder
    /\ pc \in {"generate"} \cup AfterGenerate =>
          products = sort_by_title(AcceptedSeq(Len(fut)))

\* C4, amended: the serializer runs once, after every unit has completed; the
\* items are in non-decreasing order of title; the items (with their
\* multiplicities) and the sequence of their titles do not depend on the order
\* of completion.  Items of equal title keep their order of completion.
C4_SortedOnceAfterAll ==
    /\ C4_SerializedOnceAfterAll
    /\ C4_SortedByTitle
    /\ C4_SameItems
    /\ C4_ItemsInListOrder
    /\ pc \in {"generate"} \cup AfterGenerate =>
          LET canon == sort_by_title(AcceptedSeq(Len(fut)))
          IN  /\ Len(products) = Len(canon)
              /\ \A k \in 1..Len(products) : products[k].title = canon[k].title

C4_Witness ==
    /\ pc = "write"
    /\ Len(products) = 2
    /\ products[1].link = Url(2)
    /\ products[2].link = Url(1)
    /\ StrLess(products[1].title, products[2].title)
    /\ feed_calls = 1

ExpectedAvailability ==
    (<<"h","t","t","p","s",":","/","/","s","c","h","e","m","a",".","o","r","g","/","I","n","S","t","o","c","k">> (* https://schema.org/InStock *) :> <<"i","n","_","s","t","o","c","k">> (* in_stock *))
    @@ (<<"h","t","t","p",":","/","/","s","c","h","e","m","a",".","o","r","g","/","I","n","S","t","o","c","k">> (* http://schema.org/InStock *) :> <<"i","n","_","s","t","o","c","k">> (* in_stock *))
    @@ (<<"h","t","t","p","s",":","/","/","s","c","h","e","m","a",".","o","r","g","/","O","u","t","O","f","S","t","o","c","k">> (* https://schema.org/OutOfStock *) :> <<"o","u","t","_","o","f","_","s","t","o","c","k">> (* out_of_stock *))
    @@ (<<"h","t","t","p",":","/","/","s","c","h","e","m","a",".","o","r","g","/","O","u","t","O","f","S","t","o","c","k">> (* http://schema.org/OutOfStock *) :> <<"o","u","t","_","o","f","_","s","t","o","c","k">> (* out_of_stock *))
    @@ (<<"h","t","t","p","s",":","/","/","s","c","h","e","m","a",".","o","r","g","/","P","r","e","O","r","d","e","r">> (* https://schema.org/PreOrder *) :> <<"p","r","e","o","r","d","e","r">> (* preorder *))
    @@ (<<"h","t","t","p",":","/","/","s","c","h","e","m","a",".","o","r","g","/","P","r","e","O","r","d","e","r">> (* http://schema.org/PreOrder *) :> <<"p","r","e","o","r","d","e","r">> (* preorder *))

OfferAvailability(i) ==
    LET d == DocOf(i)
    IN  IF "offers" \in DOMAIN d THEN Get(d.offers.obj, "availability", << >>) ELSE << >>

\* C6: the availability of a record is in_stock, out_of_stock or preorder for
\* the InStock, OutOfStock and PreOrder URIs, in their https and http forms
\* alike, and in_stock for any other or absent value.
C6_AvailabilityMapped ==
    \A i \in Accepted :
        LET a == OfferAvailability(i)
        IN  fut[i].result.availability =
                (IF a \in DOMAIN ExpectedAvailability THEN ExpectedAvailability[a] ELSE <<"i","n","_","s","t","o","c","k">> (* in_stock *))

\* the last path segment of u once its trailing slashes are dropped
Slug(u) ==
    LET m == CHOOSE m \in 0..Len(u) :
                 (m = 0 \/ u[m] # "/") /\ \A j \in (m + 1)..Len(u) : u[j] = "/"
        b == CHOOSE b \in 0..m :
                 (b = 0 \/ u[b] = "/") /\ \A j \in (b + 1)..m : u[j] # "/"
    IN  SubSeq(u, b + 1, m)

RawId(i) ==
    LET sku == Get(DocOf(i), "sku", << >>)
    IN  IF sku # << >> THEN sku ELSE Slug(urls[i])

\* C7: the id of a record is at most 50 characters long: the SKU, or the URL's
\* last segment when there is no SKU, unchanged when it has at most 50
\* characters, and otherwise its first 41 characters, a hyphen and 8
\* hexadecimal digits; equal inputs give equal ids.
C7_IdAtMost50 ==
    /\ \A i \in Accepted :
          LET raw == RawId(i)
              id == fut[i].result.id
          IN  /\ Len(id) <= ID_MAX
              /\ Len(raw) <= ID_MAX => id = raw
              /\ Len(raw) > ID_MAX =>
                    /\ Len(id) = 50
                    /\ SubSeq(id, 1, 41) = SubSeq(raw, 1, 41)
                    /\ id[42] = "-"
                    /\ \A k \in 43..50 : id[k] \in Range(HexDigits)
    /\ \A i, j \in Accepted : RawId(i) = RawId(j) => fut[i].result.id = fut[j].result.id

C7_Witness ==
    \E i \in Accepted :
        /\ "sku" \in DOMAIN DocOf(i)
        /\ Len(RawId(i)) = ID_MAX + 1
        /\ Len(fut[i].result.id) = ID_MAX
        /\ fut[i].result.id[ID_KEEP + 1] = "-"

C7_WitnessSlug ==
    \E i \in Accepted :
        /\ "sku" \notin DOMAIN DocOf(i)
        /\ Len(RawId(i)) > ID_MAX
        /\ Len(fut[i].result.id) = ID_MAX

C7_WitnessSameId ==
    /\ Cardinality(Accepted) = 2
    /\ \A i \in Accepted : Len(RawId(i)) > ID_MAX
    /\ \A i, j \in Accepted : fut[i].result.id = fut[j].result.id

GtinElements(item) == LinesWith(item, <<"<","g",":","g","t","i","n",">">> (* <g:gtin> *))

FlagElements(item) == LinesWith(item, <<"<","g",":","i","d","e","n","t","i","f","i","e","r","_","e","x","i","s","t","s",">","f","a","l","s","e","<","/","g",":","i","d","e","n","t","i","f","i","e","r","_","e","x","i","s","t","s",">">> (* <g:identifier_exists>false</g:identifier_exists> *))

\* C9: every item of the feed has exactly one of <g:gtin> and
\* <g:identifier_exists>false</g:identifier_exists>: the flag alone when the
\* structured data has neither gtin13 nor gtin, the gtin element alone,
\* carrying the value, when it has a gtin13 value.
C9_GtinOrFlag ==
    pc \in AfterGenerate =>
        /\ Cardinality(ItemStarts(xml_content)) = Len(products)
        /\ \A k \in 1..Len(products) :
              LET item == NthItem(xml_content, k) IN
              /\ GtinElements(item) + FlagElements(item) = 1
              /\ \A i \in Accepted :
                    fut[i].result = products[k] =>
                        LET d == DocOf(i) IN
                        /\ ("gtin13" \notin DOMAIN d /\ "gtin" \notin DOMAIN d) =>
                              (FlagElements(item) = 1 /\ GtinElements(item) = 0)
                        /\ ("gtin13" \in DOMAIN d /\ d.gtin13 # << >>) =>
                              /\ GtinElements(item) = 1
                              /\ FlagElements(item) = 0
                              /\ \E j \in 1..Len(item) :
                                    item[j] = <<" "," "," "," "," "," ","<","g",":","g","t","i","n",">">> (*       <g:gtin> *) \o XmlText(d.gtin13) \o <<"<","/","g",":","g","t","i","n",">">> (* </g:gtin> *)

C9_Witness ==
    /\ pc = "write"
    /\ Len(products) = 1
    /\ \E i \in Accepted : "gtin13" \in DOMAIN DocOf(i) /\ DocOf(i).gtin13 = <<"8","6","9","0","0","0","1","1","1","2","2","2","3">> (* 8690001112223 *)
    /\ \E j \in 1..Len(xml_content) : xml_content[j] = <<" "," "," "," "," "," ","<","g",":","g","t","i","n",">","8","6","9","0","0","0","1","1","1","2","2","2","3","<","/","g",":","g","t","i","n",">">> (*       <g:gtin>8690001112223</g:gtin> *)
    /\ FlagElements(NthItem(xml_content, 1)) = 0

C9_WitnessFlag ==
    /\ pc = "write"
    /\ Len(products) = 1
    /\ \E i \in Accepted : "gtin13" \notin DOMAIN DocOf(i) /\ "gtin" \notin DOMAIN DocOf(i)
    /\ FlagElements(NthItem(xml_content, 1)) = 1
    /\ GtinElements(NthItem(xml_content, 1)) = 0

============================================================================
